---- MODULE Spec2Model ----
(***************************************************************************)
(* A model of salestax-go (package salestax, src/salestax.go).             *)
(*                                                                         *)
(* The controller Ctrl holds two public fields (OriginCountryCode,         *)
(* RegionalTaxEnabled) and two lazily filled caches (regionCountries,      *)
(* taxRates).  Every function of the package is translated to an operator  *)
(* that takes the controller t and returns the controller after the call   *)
(* together with the returned value(s) and the error flag.                 *)
(*                                                                         *)
(* Representation.                                                         *)
(*  - a Go map is [nil |-> BOOLEAN, m |-> function]; a nil map is NilMap;  *)
(*  - a *string is a string or Nil;                                        *)
(*  - a float32 rate is an integer number of 1/100000 (0.19 is 19000):     *)
(*    the code only adds two rates and compares rates with 0;              *)
(*  - an instant is a natural number; the history keys are the strings of  *)
(*    the data and ParseTime turns a key into its instant;                 *)
(*  - currentTime() is the clock variable now; one call reads one instant. *)
(***************************************************************************)
EXTENDS Integers, Sequences, FiniteSets, TLC

VARIABLES
    regionCountriesData,  \* embedded res/region_countries.json
    salesTaxRatesData,    \* embedded res/sales_tax_rates.json
    t,                    \* the Ctrl instance
    now,                  \* what currentTime() returns
    call,                 \* the call in progress / last made, with its arguments
    ret,                  \* what that call returned
    pc,                   \* concurrent callers: position inside a lazy accessor
    parses                \* concurrent callers: json.Unmarshal runs per dataset

vars == <<regionCountriesData, salesTaxRatesData, t, now, call, ret, pc, parses>>

\* ------------------------------------------------------------------ bounds

MaxTime == 4

NumCallers == 2

\* --------------------------------------------------------------- constants

Nil == "<nil>"

TaxExchangeBusiness == "business"

TaxExchangeConsumer == "consumer"

TaxAreaWorldwide == "worldwide"

TaxAreaNational == "national"

TaxAreaRegional == "regional"

NilMap == [nil |-> TRUE, m |-> <<>>]

MakeMap(f) == [nil |-> FALSE, m |-> f]

\* type taxRate struct
taxRate(type, rate, before, states) ==
    [TaxType |-> type, TaxRate |-> rate, PreviousRecordings |-> before, States |-> states]

defaultTaxRate == taxRate("none", 0, NilMap, NilMap)

\* the zero value of taxRate, what a failed map lookup yields
zeroTaxRate == taxRate("", 0, NilMap, NilMap)

\* m[k] of Go: the value and whether the key is present (a nil map has no key)
MapGet(mp, k) ==
    IF (~mp.nil) /\ k \in DOMAIN mp.m
    THEN [ok |-> TRUE, v |-> mp.m[k]]
    ELSE [ok |-> FALSE, v |-> zeroTaxRate]

\* slices.Contains
Contains(s, x) == \E i \in 1..Len(s) : s[i] = x

\* strings.ToUpper on the strings of the model
ToUpper(s) ==
    CASE s = "de" -> "DE"
      [] s = "qc" -> "QC"
      [] OTHER -> s

\* ------------------------------------------------------------ bundled data

K2020 == "2020-07-01T00:00:00.000Z"

K2021 == "2021-01-01T00:00:00.000Z"

\* The order in which a range over a map of history keys may visit them.
KeyOrders == { <<K2020, K2021>>, <<K2021, K2020>> }

\* time.Parse(dateLayout, dateStr): the instant of a key, or an error
ParseTime(dateStr) ==
    CASE dateStr = K2020 -> [err |-> FALSE, date |-> 1]
      [] dateStr = K2021 -> [err |-> FALSE, date |-> 3]
      [] OTHER -> [err |-> TRUE, date |-> 0]

plain(type, rate) == taxRate(type, rate, NilMap, NilMap)

\* The rates the tests pin down: DE 0.19 with two earlier recordings (0.16 in
\* force in August 2020), FR 0.2, CA gst + QC qst = 0.14975, US none + NY 0.04.
RatesA ==
    ("DE" :> taxRate("vat", 19000,
                MakeMap((K2021 :> plain("vat", 16000)) @@ (K2020 :> plain("vat", 19000))),
                NilMap))
    @@ ("FR" :> plain("vat", 20000))
    @@ ("CA" :> taxRate("gst", 5000, NilMap,
                MakeMap("QC" :> plain("qst", 9975))))
    @@ ("US" :> taxRate("none", 0, NilMap, MakeMap("NY" :> plain("vat", 4000))))

\* A second well-formed table: another history of DE, a country whose tax was
\* abolished (FR untaxed from K2020 on) and one whose tax starts at K2021.
RatesB ==
    ("DE" :> taxRate("vat", 19000,
                MakeMap((K2020 :> plain("vat", 15000)) @@ (K2021 :> plain("vat", 16000))),
                NilMap))
    @@ ("FR" :> taxRate("none", 0, MakeMap(K2020 :> plain("vat", 20000)), NilMap))
    @@ ("CA" :> taxRate("gst", 5000, MakeMap(K2021 :> plain("none", 0)),
                MakeMap("QC" :> plain("qst", 9975))))
    @@ ("US" :> taxRate("none", 0, NilMap, MakeMap("NY" :> plain("vat", 4000))))

RateTables == {RatesA, RatesB}

RegionsA == ("EU" :> <<"DE", "FR">>)

RegionsB == ("EU" :> <<"FR", "DE">>) @@ ("NA" :> <<"CA", "US">>)

RegionTables == {RegionsA, RegionsB}

\* json.Unmarshal of an embedded document into a nil map field
Unmarshal(data) == [err |-> FALSE, val |-> MakeMap(data)]

\* -------------------------------------------------------------- the inputs

Origins == {Nil, "DE", "CA", "de"}

CountryCodes == {"DE", "FR", "CA", "US", "??", "de"}

StateCodes == {Nil, "QC", "qc", "NY"}

TaxNumbers == {Nil, "DE000000000"}

\* ------------------------------------------------------------ the package

\* "x := e; F(x)": e is evaluated once and F applied to its value
Then(e, F(_)) == CHOOSE y \in { F(x) : x \in {e} } : TRUE

\* func (t *Ctrl) getRegionCountries
getRegionCountries(c) ==
    IF c.regionCountries.nil
    THEN Then(Unmarshal(regionCountriesData), LAMBDA u :
         IF u.err
         THEN [t |-> c, err |-> TRUE, val |-> NilMap]
         ELSE [t |-> [c EXCEPT !.regionCountries = u.val], err |-> FALSE, val |-> u.val])
    ELSE [t |-> c, err |-> FALSE, val |-> c.regionCountries]

\* func (t *Ctrl) getSalesTaxRates
getSalesTaxRates(c) ==
    IF c.taxRates.nil
    THEN Then(Unmarshal(salesTaxRatesData), LAMBDA u :
         IF u.err
         THEN [t |-> c, err |-> TRUE, val |-> NilMap]
         ELSE [t |-> [c EXCEPT !.taxRates = u.val], err |-> FALSE, val |-> u.val])
    ELSE [t |-> c, err |-> FALSE, val |-> c.taxRates]

\* the loop of getTargetArea over the regions: some region holds both codes
inSameRegion(regionCountries, origin, countryCode) ==
    \E r \in DOMAIN regionCountries.m :
        /\ Contains(regionCountries.m[r], origin)
        /\ Contains(regionCountries.m[r], countryCode)

\* func (t *Ctrl) getTargetArea
getTargetArea(c, countryCode) ==
    IF c.OriginCountryCode # Nil
    THEN IF c.OriginCountryCode = countryCode
         THEN [t |-> c, err |-> FALSE, val |-> TaxAreaNational]
         ELSE Then(getRegionCountries(c), LAMBDA rc :
              IF rc.err
              THEN [t |-> rc.t, err |-> TRUE, val |-> Nil]
              ELSE [t |-> rc.t, err |-> FALSE,
                    val |-> IF inSameRegion(rc.val, c.OriginCountryCode, countryCode)
                            THEN TaxAreaRegional
                            ELSE TaxAreaWorldwide])
    ELSE [t |-> c, err |-> FALSE, val |-> TaxAreaWorldwide]

\* activeDateKey, activeDate before the loop of getSalesTaxRate
noActive == [err |-> FALSE, activeDateKey |-> Nil, activeDate |-> 0]

\* scanStep without the comparison with activeDate: the last future key wins
scanStepLastWins(acc, dateStr, currentDate) ==
    Then(ParseTime(dateStr), LAMBDA p :
        IF p.err
        THEN [acc EXCEPT !.err = TRUE]
        ELSE IF currentDate < p.date
             THEN [err |-> FALSE, activeDateKey |-> dateStr, activeDate |-> p.date]
             ELSE acc)

\* one iteration of the loop over rate.PreviousRecordings
scanStep(acc, dateStr, currentDate) ==
    Then(ParseTime(dateStr), LAMBDA p :
        IF p.err
        THEN [acc EXCEPT !.err = TRUE]
        ELSE IF currentDate < p.date
             THEN IF acc.activeDateKey = Nil \/ p.date < acc.activeDate
                  THEN [err |-> FALSE, activeDateKey |-> dateStr, activeDate |-> p.date]
                  ELSE acc
             ELSE acc)

\* the loop over rate.PreviousRecordings, visiting its keys in the order keys;
\* a key that does not parse ends the loop with the error
RECURSIVE scanRecordings(_, _, _)
scanRecordings(keys, acc, currentDate) ==
    IF keys = <<>> \/ acc.err
    THEN acc
    ELSE Then(scanStep(acc, Head(keys), currentDate), LAMBDA next :
             scanRecordings(Tail(keys), next, currentDate))

\* the keys of a map in the order a range visits them, ord being the order
\* the runtime happens to pick
RECURSIVE rangeKeys(_, _)
rangeKeys(mp, ord) ==
    IF ord = <<>>
    THEN <<>>
    ELSE IF Head(ord) \in DOMAIN mp.m
         THEN <<Head(ord)>> \o rangeKeys(mp, Tail(ord))
         ELSE rangeKeys(mp, Tail(ord))

\* missingCountry returning an error instead of the no-tax record
missingCountryFails == [err |-> TRUE, val |-> zeroTaxRate]

\* getSalesTaxRate for a country the rate table does not hold
missingCountry == [err |-> FALSE, val |-> defaultTaxRate]

\* the history part of getSalesTaxRate: the recording in force, if any
resolveRecordings(rate, ord) ==
    IF ~rate.PreviousRecordings.nil
    THEN Then(scanRecordings(rangeKeys(rate.PreviousRecordings, ord), noActive, now),
         LAMBDA scan :
             IF scan.err
             THEN [err |-> TRUE, val |-> zeroTaxRate]
             ELSE IF scan.activeDateKey # Nil
                  THEN [err |-> FALSE, val |-> rate.PreviousRecordings.m[scan.activeDateKey]]
                  ELSE [err |-> FALSE, val |-> rate])
    ELSE [err |-> FALSE, val |-> rate]

\* func (t *Ctrl) getSalesTaxRate
getSalesTaxRate(c, countryCode, ord) ==
    Then(getSalesTaxRates(c), LAMBDA rs :
        IF rs.err
        THEN [t |-> rs.t, err |-> TRUE, val |-> zeroTaxRate]
        ELSE Then(MapGet(rs.val, countryCode), LAMBDA look :
             IF ~look.ok
             THEN [t |-> rs.t, err |-> missingCountry.err, val |-> missingCountry.val]
             ELSE Then(resolveRecordings(look.v, ord), LAMBDA r :
                  [t |-> rs.t, err |-> r.err, val |-> r.val])))

\* totalTax of hasTotalSalesTax
totalTaxOf(rate, stateCode) ==
    Then(MapGet(rate.States, stateCode), LAMBDA st :
        IF stateCode # Nil /\ st.ok
        THEN rate.TaxRate + st.v.TaxRate
        ELSE rate.TaxRate)

\* func (t *Ctrl) hasTotalSalesTax
hasTotalSalesTax(c, countryCode0, stateCode0, ord) ==
    LET countryCode == ToUpper(countryCode0)
        stateCode == IF stateCode0 # Nil THEN ToUpper(stateCode0) ELSE Nil
    IN  Then(getSalesTaxRate(c, countryCode, ord), LAMBDA r :
            IF r.err
            THEN [t |-> r.t, err |-> TRUE, val |-> FALSE]
            ELSE [t |-> r.t, err |-> FALSE, val |-> totalTaxOf(r.val, stateCode) > 0])

\* exchangeStatus that never exempts a buyer with a tax number
exchangeStatusNeverExempt(hasTax, taxNumber, targetArea) ==
    IF hasTax
    THEN IF taxNumber # Nil
         THEN [status |-> TaxExchangeBusiness, exempt |-> FALSE]
         ELSE [status |-> TaxExchangeConsumer, exempt |-> FALSE]
    ELSE [status |-> TaxExchangeConsumer, exempt |-> TRUE]

\* exchangeStatus that exempts a buyer with a tax number in a National sale too
exchangeStatusAlwaysExempt(hasTax, taxNumber, targetArea) ==
    IF hasTax
    THEN IF taxNumber # Nil
         THEN [status |-> TaxExchangeBusiness, exempt |-> TRUE]
         ELSE [status |-> TaxExchangeConsumer, exempt |-> FALSE]
    ELSE [status |-> TaxExchangeConsumer, exempt |-> TRUE]

\* the decision of getTaxExchangeStatus
exchangeStatus(hasTax, taxNumber, targetArea) ==
    IF hasTax
    THEN IF taxNumber # Nil
         THEN [status |-> TaxExchangeBusiness, exempt |-> targetArea # TaxAreaNational]
         ELSE [status |-> TaxExchangeConsumer, exempt |-> FALSE]
    ELSE [status |-> TaxExchangeConsumer, exempt |-> TRUE]

\* func (t *Ctrl) getTaxExchangeStatus
getTaxExchangeStatus(c, countryCode, stateCode, taxNumber, ord) ==
    Then(getTargetArea(c, countryCode), LAMBDA ta :
        IF ta.err
        THEN [t |-> ta.t, err |-> TRUE, status |-> Nil, exempt |-> FALSE]
        ELSE Then(hasTotalSalesTax(ta.t, countryCode, stateCode, ord), LAMBDA h :
             IF h.err
             THEN [t |-> h.t, err |-> TRUE, status |-> Nil, exempt |-> FALSE]
             ELSE Then(exchangeStatus(h.val, taxNumber, ta.val), LAMBDA e :
                  [t |-> h.t, err |-> FALSE, status |-> e.status, exempt |-> e.exempt])))

\* useOriginRate with the flag as the comment on RegionalTaxEnabled words it
useOriginRateWhenEnabled(c, targetArea) ==
    targetArea = TaxAreaRegional /\ c.RegionalTaxEnabled /\ c.OriginCountryCode # Nil

\* the branch of GetSalesTax that takes the origin country's rate
useOriginRate(c, targetArea) ==
    targetArea = TaxAreaRegional /\ (~c.RegionalTaxEnabled) /\ c.OriginCountryCode # Nil

\* the state rate of GetSalesTax's else branch: a state the table does not hold
\* leaves the zero value of the failed lookup in stateTax
stateTaxOf(countryTax, stateCode) ==
    IF (~countryTax.States.nil) /\ stateCode # Nil
    THEN MapGet(countryTax.States, stateCode).v
    ELSE defaultTaxRate

\* taxType of GetSalesTax
composeType(countryTax, stateTax) ==
    IF stateTax.TaxRate > 0
    THEN IF countryTax.TaxRate > 0
         THEN <<countryTax.TaxType, stateTax.TaxType>>
         ELSE <<stateTax.TaxType>>
    ELSE <<countryTax.TaxType>>

\* taxChargeOf with Reverse set for every positive rate, exempt or not
taxChargeReverseOnRate(taxType, isExempt, totalRate) ==
    IF taxType # <<"none">>
    THEN [Direct |-> ~isExempt, Reverse |-> totalRate > 0]
    ELSE [Direct |-> FALSE, Reverse |-> FALSE]

\* taxCharge of GetSalesTax
taxChargeOf(taxType, isExempt, totalRate) ==
    IF taxType # <<"none">>
    THEN [Direct |-> ~isExempt, Reverse |-> isExempt /\ totalRate > 0]
    ELSE [Direct |-> FALSE, Reverse |-> FALSE]

noSalesTax == [Type |-> <<>>, Rate |-> 0, Area |-> Nil, Exchange |-> Nil,
               Charge |-> [Direct |-> FALSE, Reverse |-> FALSE]]

\* GetSalesTax from "taxExchange := TaxExchangeConsumer" on, c being the
\* controller after the rate lookups
composeSalesTax(c, targetArea, countryTax, stateTax, countryCode, stateCode, taxNumber, ord) ==
    Then(IF countryTax.TaxRate > 0 \/ stateTax.TaxRate > 0
         THEN getTaxExchangeStatus(c, countryCode, stateCode, taxNumber, ord)
         ELSE [t |-> c, err |-> FALSE, status |-> TaxExchangeConsumer, exempt |-> FALSE],
    LAMBDA ex :
        IF ex.err
        THEN [t |-> ex.t, err |-> TRUE, val |-> noSalesTax]
        ELSE LET totalRate == countryTax.TaxRate + stateTax.TaxRate
                 taxType == composeType(countryTax, stateTax)
             IN  [t |-> ex.t, err |-> FALSE,
                  val |-> [Type |-> taxType, Rate |-> totalRate, Area |-> targetArea,
                           Exchange |-> ex.status,
                           Charge |-> taxChargeOf(taxType, ex.exempt, totalRate)]])

\* func (t *Ctrl) GetSalesTax
GetSalesTax(c, countryCode0, stateCode0, taxNumber, ord) ==
    LET countryCode == ToUpper(countryCode0)
        stateCode == IF stateCode0 # Nil THEN ToUpper(stateCode0) ELSE Nil
    IN  Then(getTargetArea(c, countryCode), LAMBDA ta :
        IF ta.err
        THEN [t |-> ta.t, err |-> TRUE, val |-> noSalesTax]
        ELSE IF useOriginRate(c, ta.val)
        THEN Then(getSalesTaxRate(ta.t, c.OriginCountryCode, ord), LAMBDA ct :
             IF ct.err
             THEN [t |-> ct.t, err |-> TRUE, val |-> noSalesTax]
             ELSE composeSalesTax(ct.t, ta.val, ct.val, defaultTaxRate,
                                  countryCode, stateCode, taxNumber, ord))
        ELSE Then(getSalesTaxRate(ta.t, countryCode, ord), LAMBDA ct :
             IF ct.err
             THEN [t |-> ct.t, err |-> TRUE, val |-> noSalesTax]
             ELSE Then(stateTaxOf(ct.val, stateCode), LAMBDA stateTax :
                  composeSalesTax(ct.t, ta.val, ct.val, stateTax,
                                  countryCode, stateCode, taxNumber, ord))))

\* ------------------------------------------------- one caller: the calls

\* &Ctrl{OriginCountryCode: ..., RegionalTaxEnabled: ...}
NewCtrl(origin, enabled) ==
    [OriginCountryCode |-> origin, RegionalTaxEnabled |-> enabled,
     regionCountries |-> NilMap, taxRates |-> NilMap]

noCall == [op |-> "none", countryCode |-> Nil, stateCode |-> Nil, taxNumber |-> Nil]

noRet == [err |-> FALSE, val |-> Nil]

Callers == 1..NumCallers

Datasets == {"regionCountries", "taxRates"}

idle == [at |-> "idle", d |-> Nil]

Init ==
    /\ regionCountriesData \in RegionTables
    /\ salesTaxRatesData \in RateTables
    /\ \E origin \in Origins, enabled \in BOOLEAN : t = NewCtrl(origin, enabled)
    /\ now = 0
    /\ call = noCall
    /\ ret = noRet
    /\ pc = [c \in Callers |-> idle]
    /\ parses = [d \in Datasets |-> 0]

\* ctrl.GetSalesTax(countryCode, stateCode, taxNumber)
CallGetSalesTax ==
    /\ call.op = "none"
    /\ \E countryCode \in CountryCodes, stateCode \in StateCodes,
          taxNumber \in TaxNumbers, ord \in KeyOrders :
          \E r \in {GetSalesTax(t, countryCode, stateCode, taxNumber, ord)} :
              /\ t' = r.t
              /\ call' = [op |-> "GetSalesTax", countryCode |-> countryCode,
                          stateCode |-> stateCode, taxNumber |-> taxNumber]
              /\ ret' = [err |-> r.err, val |-> r.val]
    /\ UNCHANGED <<regionCountriesData, salesTaxRatesData, now, pc, parses>>

\* ctrl.getTaxExchangeStatus(countryCode, stateCode, taxNumber)
CallGetTaxExchangeStatus ==
    /\ call.op = "none"
    /\ \E countryCode \in CountryCodes, stateCode \in StateCodes,
          taxNumber \in TaxNumbers, ord \in KeyOrders :
          \E r \in {getTaxExchangeStatus(t, countryCode, stateCode, taxNumber, ord)} :
              /\ t' = r.t
              /\ call' = [op |-> "getTaxExchangeStatus", countryCode |-> countryCode,
                          stateCode |-> stateCode, taxNumber |-> taxNumber]
              /\ ret' = [err |-> r.err, val |-> [status |-> r.status, exempt |-> r.exempt]]
    /\ UNCHANGED <<regionCountriesData, salesTaxRatesData, now, pc, parses>>

\* ctrl.getSalesTaxRate(countryCode)
CallGetSalesTaxRate ==
    /\ call.op = "none"
    /\ \E countryCode \in CountryCodes, ord \in KeyOrders :
          \E r \in {getSalesTaxRate(t, countryCode, ord)} :
              /\ t' = r.t
              /\ call' = [op |-> "getSalesTaxRate", countryCode |-> countryCode,
                          stateCode |-> Nil, taxNumber |-> Nil]
              /\ ret' = [err |-> r.err, val |-> r.val]
    /\ UNCHANGED <<regionCountriesData, salesTaxRatesData, now, pc, parses>>

\* ctrl.getTargetArea(countryCode)
CallGetTargetArea ==
    /\ call.op = "none"
    /\ \E countryCode \in CountryCodes :
          \E r \in {getTargetArea(t, countryCode)} :
              /\ t' = r.t
              /\ call' = [op |-> "getTargetArea", countryCode |-> countryCode,
                          stateCode |-> Nil, taxNumber |-> Nil]
              /\ ret' = [err |-> r.err, val |-> r.val]
    /\ UNCHANGED <<regionCountriesData, salesTaxRatesData, now, pc, parses>>

\* the caller takes the result; the controller is ready for the next call
Return ==
    /\ call.op # "none"
    /\ call' = noCall
    /\ ret' = noRet
    /\ UNCHANGED <<regionCountriesData, salesTaxRatesData, t, now, pc, parses>>

\* the wall clock advances between calls
Tick ==
    /\ call.op = "none"
    /\ now < MaxTime
    /\ now' = now + 1
    /\ UNCHANGED <<regionCountriesData, salesTaxRatesData, t, call, ret, pc, parses>>

Next ==
    \/ CallGetSalesTax
    \/ CallGetTaxExchangeStatus
    \/ CallGetSalesTaxRate
    \/ CallGetTargetArea
    \/ Return
    \/ Tick

Spec == Init /\ [][Next]_vars

\* -------------------------------- several callers: the lazy accessors

\* the map json.Unmarshal has allocated in the field and not yet filled
partialMap == MakeMap(<<>>)

dataOf(d) == IF d = "regionCountries" THEN regionCountriesData ELSE salesTaxRatesData

\* The README's controller, shared by the callers.
InitConc ==
    /\ regionCountriesData = RegionsA
    /\ salesTaxRatesData = RatesA
    /\ t = NewCtrl("DE", TRUE)
    /\ now = 0
    /\ call = noCall
    /\ ret = noRet
    /\ pc = [c \in Callers |-> idle]
    /\ parses = [d \in Datasets |-> 0]

\* a caller reaches getRegionCountries or getSalesTaxRates
Enter(c) ==
    /\ pc[c].at = "idle"
    /\ \E d \in Datasets : pc' = [pc EXCEPT ![c] = [at |-> "check", d |-> d]]
    /\ UNCHANGED <<regionCountriesData, salesTaxRatesData, t, now, call, ret, parses>>

\* if t.taxRates == nil (or t.regionCountries == nil): a read of the field
CheckNil(c) ==
    /\ pc[c].at = "check"
    /\ pc' = [pc EXCEPT ![c].at = IF t[pc[c].d].nil THEN "unmarshal" ELSE "return"]
    /\ UNCHANGED <<regionCountriesData, salesTaxRatesData, t, now, call, ret, parses>>

\* json.Unmarshal(data, &field) starts: a nil field gets a fresh map, a map
\* that is already there is reused
UnmarshalBegin(c) ==
    /\ pc[c].at = "unmarshal"
    /\ t' = [t EXCEPT ![pc[c].d] = IF @.nil THEN partialMap ELSE @]
    /\ parses' = [parses EXCEPT ![pc[c].d] = @ + 1]
    /\ pc' = [pc EXCEPT ![c].at = "filling"]
    /\ UNCHANGED <<regionCountriesData, salesTaxRatesData, now, call, ret>>

\* json.Unmarshal returns: the field holds the whole document
UnmarshalEnd(c) ==
    /\ pc[c].at = "filling"
    /\ t' = [t EXCEPT ![pc[c].d] = MakeMap(dataOf(pc[c].d))]
    /\ pc' = [pc EXCEPT ![c].at = "return"]
    /\ UNCHANGED <<regionCountriesData, salesTaxRatesData, now, call, ret, parses>>

\* return t.taxRates, nil (or t.regionCountries): a read of the field
ReturnMap(c) ==
    /\ pc[c].at = "return"
    /\ pc' = [pc EXCEPT ![c] = idle]
    /\ UNCHANGED <<regionCountriesData, salesTaxRatesData, t, now, call, ret, parses>>

NextConc ==
    \E c \in Callers :
        \/ Enter(c)
        \/ CheckNil(c)
        \/ UnmarshalBegin(c)
        \/ UnmarshalEnd(c)
        \/ ReturnMap(c)

SpecConc == InitConc /\ [][NextConc]_vars

\* ------------------------------------------------------------- the claims

returned(op) == call.op = op /\ ~ret.err

\* The recording of a rate record in force at an instant, stated directly: the
\* entry of the history with the least key instant after it, else the record.
InForce(rate, at) ==
    LET future == { k \in DOMAIN rate.PreviousRecordings.m : ParseTime(k).date > at }
    IN  IF rate.PreviousRecordings.nil \/ future = {}
        THEN rate
        ELSE rate.PreviousRecordings.m[
                 CHOOSE k \in future :
                     \A j \in future : ParseTime(k).date <= ParseTime(j).date]

\* The national rate of a country in force now, 0 for a country without record.
NationalRate(countryCode) ==
    IF countryCode \in DOMAIN salesTaxRatesData
    THEN InForce(salesTaxRatesData[countryCode], now).TaxRate
    ELSE 0

\* The rate of a state of a country in force now, 0 where the table has none.
StateRate(countryCode, stateCode) ==
    IF countryCode \in DOMAIN salesTaxRatesData
    THEN LET states == InForce(salesTaxRatesData[countryCode], now).States
         IN  IF stateCode # Nil /\ (~states.nil) /\ stateCode \in DOMAIN states.m
             THEN states.m[stateCode].TaxRate
             ELSE 0
    ELSE 0

\* The destination of the call in progress is taxed: country plus state rate > 0.
DestinationTaxed ==
    NationalRate(ToUpper(call.countryCode))
        + StateRate(ToUpper(call.countryCode), ToUpper(call.stateCode)) > 0

\* C1: in every decision GetSalesTax returns, Charge.Direct and Charge.Reverse
\* are never both true, and they are both false only when Type is "none".
C1_ChargeFlags ==
    returned("GetSalesTax") =>
        /\ ~(ret.val.Charge.Direct /\ ret.val.Charge.Reverse)
        /\ ((~ret.val.Charge.Direct) /\ (~ret.val.Charge.Reverse)
               => ret.val.Type = <<"none">>)

\* a decision of type "none" with both flags false, for a call with a tax number
C1_Witness ==
    /\ returned("GetSalesTax")
    /\ call.taxNumber # Nil
    /\ ret.val.Type = <<"none">>
    /\ ~ret.val.Charge.Direct
    /\ ~ret.val.Charge.Reverse

\* C2 as stated: with a tax number and an area other than National, every
\* decision has Charge.Reverse = true and Charge.Direct = false.
C2_Original ==
    (returned("GetSalesTax") /\ call.taxNumber # Nil /\ ret.val.Area # TaxAreaNational)
        => (ret.val.Charge.Reverse /\ ~ret.val.Charge.Direct)

\* C2 as amended: with a tax number, an area other than National and a composed
\* rate greater than 0, the decision has Charge.Reverse = true and
\* Charge.Direct = false; with a composed rate of 0 it has neither flag.
C2_Amended ==
    (returned("GetSalesTax") /\ call.taxNumber # Nil /\ ret.val.Area # TaxAreaNational)
        => IF ret.val.Rate > 0
           THEN ret.val.Charge.Reverse /\ ~ret.val.Charge.Direct
           ELSE (~ret.val.Charge.Reverse) /\ ~ret.val.Charge.Direct

\* a reverse charge for a tax number in a Regional sale
C2_Witness ==
    /\ returned("GetSalesTax")
    /\ call.taxNumber # Nil
    /\ ret.val.Area = TaxAreaRegional
    /\ ret.val.Rate > 0
    /\ ret.val.Charge.Reverse
    /\ ~ret.val.Charge.Direct

\* C3: for a taxed destination and a tax number, getTaxExchangeStatus returns
\* Business with exempt = (area is not National), the area being National exactly
\* when the origin is set and equals the destination; and GetSalesTax for a
\* National sale then returns Business, Direct = true, Reverse = false.
C3_BusinessExemption ==
    /\ (returned("getTaxExchangeStatus") /\ call.taxNumber # Nil /\ DestinationTaxed)
          => /\ ret.val.status = TaxExchangeBusiness
             /\ ret.val.exempt = ~(t.OriginCountryCode # Nil
                                   /\ t.OriginCountryCode = call.countryCode)
    /\ (returned("GetSalesTax") /\ call.taxNumber # Nil /\ DestinationTaxed
           /\ ret.val.Area = TaxAreaNational)
          => /\ ret.val.Exchange = TaxExchangeBusiness
             /\ ret.val.Charge.Direct
             /\ ~ret.val.Charge.Reverse

\* a National sale to a buyer with a tax number, charged directly
C3_Witness ==
    /\ returned("GetSalesTax")
    /\ call.taxNumber # Nil
    /\ DestinationTaxed
    /\ ret.val.Area = TaxAreaNational
    /\ ret.val.Exchange = TaxExchangeBusiness
    /\ ret.val.Charge.Direct

\* C4: with RegionalTaxEnabled = false and a Regional area, the Rate of the
\* decision is the origin country's national rate in force, with no state rate.
C4_OriginRate ==
    (returned("GetSalesTax") /\ (~t.RegionalTaxEnabled) /\ ret.val.Area = TaxAreaRegional)
        => ret.val.Rate = NationalRate(t.OriginCountryCode)

\* a Regional sale to a taxed state of a country with another national rate
C4_Witness ==
    /\ returned("GetSalesTax")
    /\ ~t.RegionalTaxEnabled
    /\ ret.val.Area = TaxAreaRegional
    /\ StateRate(ToUpper(call.countryCode), ToUpper(call.stateCode)) > 0
    /\ NationalRate(ToUpper(call.countryCode)) # NationalRate(t.OriginCountryCode)
    /\ ret.val.Rate > 0

\* C5 as documented on Ctrl.RegionalTaxEnabled: with RegionalTaxEnabled = true
\* and a Regional area, the Rate of the decision is the origin country's rate.
C5_Documented ==
    (returned("GetSalesTax") /\ t.RegionalTaxEnabled /\ ret.val.Area = TaxAreaRegional)
        => ret.val.Rate = NationalRate(t.OriginCountryCode)

\* C6: getSalesTaxRate for a country of the table returns the history entry with
\* the least key instant strictly after now, and the top-level record when no
\* key is after now (now equal to a key included) or there is no history.
C6_HistoryResolution ==
    (returned("getSalesTaxRate") /\ call.countryCode \in DOMAIN salesTaxRatesData)
        => ret.val = InForce(salesTaxRatesData[call.countryCode], now)

\* two keys are after now and the entry of the earlier one is returned
C6_Witness ==
    /\ returned("getSalesTaxRate")
    /\ call.countryCode = "DE"
    /\ salesTaxRatesData = RatesB
    /\ now < ParseTime(K2020).date
    /\ ret.val = salesTaxRatesData["DE"].PreviousRecordings.m[K2020]
    /\ ret.val # salesTaxRatesData["DE"].PreviousRecordings.m[K2021]

\* The area the claim C7 gives an origin and the destination being classified.
ClaimedArea(origin, destination) ==
    IF origin = Nil
    THEN TaxAreaWorldwide
    ELSE IF ToUpper(origin) = ToUpper(destination)
    THEN TaxAreaNational
    ELSE IF \E r \in DOMAIN regionCountriesData :
                /\ Contains(regionCountriesData[r], origin)
                /\ Contains(regionCountriesData[r], destination)
    THEN TaxAreaRegional
    ELSE TaxAreaWorldwide

\* C7: the area is Worldwide without origin, else National when origin and
\* destination are equal compared case-insensitively, else Regional when a
\* region holds both, else Worldwide.  GetSalesTax classifies the destination
\* it has put in upper case, getTargetArea the destination it is given.
C7_AreaClassification ==
    /\ returned("GetSalesTax")
          => ClaimedArea(t.OriginCountryCode, ToUpper(call.countryCode)) = ret.val.Area
    /\ returned("getTargetArea")
          => ClaimedArea(t.OriginCountryCode, call.countryCode) = ret.val

\* C8: no call fails; getSalesTaxRate returns the no-tax record for a country the
\* table does not hold, and GetSalesTax for such a country returns type "none",
\* rate 0, Consumer and no charge flag, with or without state and tax number.
C8_UnknownInputs ==
    /\ call.op # "none" => ~ret.err
    /\ (call.op = "getSalesTaxRate" /\ call.countryCode \notin DOMAIN salesTaxRatesData)
          => ret.val = defaultTaxRate
    /\ (call.op = "GetSalesTax" /\ ToUpper(call.countryCode) \notin DOMAIN salesTaxRatesData)
          => /\ ret.val.Type = <<"none">>
             /\ ret.val.Rate = 0
             /\ ret.val.Exchange = TaxExchangeConsumer
             /\ ~ret.val.Charge.Direct
             /\ ~ret.val.Charge.Reverse

\* GetSalesTax for an unknown country, with a state code and a tax number
C8_Witness ==
    /\ returned("GetSalesTax")
    /\ call.countryCode = "??"
    /\ call.stateCode # Nil
    /\ call.taxNumber # Nil
    /\ ret.val.Type = <<"none">>

\* Two callers touch a cache field at once, one of them writing it.
Racing ==
    \E a, b \in Callers :
        /\ a # b
        /\ pc[a].d = pc[b].d
        /\ pc[a].at \in {"unmarshal", "filling"}
        /\ pc[b].at \in {"check", "unmarshal", "filling", "return"}

\* C9: each dataset is parsed at most once and no caller writes a cache field
\* while another caller reads or writes it.
C9_GuardedLoad ==
    /\ \A d \in Datasets : parses[d] <= 1
    /\ ~Racing

\* C10: a decision with Charge.Reverse = true has Exchange = Business and was
\* asked with a tax number.
C10_ReverseNeedsTaxNumber ==
    (returned("GetSalesTax") /\ ret.val.Charge.Reverse)
        => (ret.val.Exchange = TaxExchangeBusiness /\ call.taxNumber # Nil)

====
